---- MODULE Spec2Model ----
(***************************************************************************)
(* nicegfx: the presentation and synchronisation layer.                    *)
(*                                                                         *)
(* Two programs live in the repository and are modelled side by side:      *)
(*   program = "hal"  : a HalState (src/src/hal_state.rs) driven by an     *)
(*                      arbitrary caller through draw_clear_frame,         *)
(*                      recreate_swapchain and drop;                       *)
(*   program = "main" : the presentation loop of src/src/main.rs.          *)
(* Both talk to the same environment: one graphics queue that executes its *)
(* operations in submission order, binary semaphores, and a presentation   *)
(* engine that hands out image indices and later declares the image        *)
(* available by signalling the semaphore given to the acquisition.         *)
(***************************************************************************)
EXTENDS Integers, Sequences, FiniteSets, TLC

\* ------------------------------------------------------------------ bounds

\* Largest caps.image_count.end the surface reports in the model.
MaxImageCount == 3
\* main submits without ever waiting for the GPU: its queue is cut here.
MaxQueue == 4
\* The calls of draw_clear_frame counted from HalState::new.
MaxCalls == 3
\* The largest image_count.end a surface reports to the configuration block.
MaxImageCountEnd == 5
\* The longest list of formats a surface advertises to the format selection.
MaxFormats == 3
\* The largest width and height of an extent of the surface or the window.
MaxExtent == 3

VARIABLES
    program,                      \* "hal" | "main"
    pc,                           \* position of the CPU thread
    \* HalState's fields (hal_state.rs:51-69)
    current_frame,
    frames_in_flight,
    in_flight_fences,             \* Seq of "signaled" | "unsignaled"
    image_available_semaphores,   \* Seq of semaphore names
    render_finished_semaphores,   \* Seq of semaphore names
    command_buffers,              \* number of command buffers
    framebuffers,                 \* number of framebuffers held
    image_views,                  \* number of image views held
    render_pass,                  \* [live]
    swapchain,                    \* [live, images]
    \* local of the draw_clear_frame in progress
    slot,                         \* index taken from current_frame
    \* main's locals (main.rs:218-223, 227, 260)
    swapchain_stuff,              \* Option<(swapchain, extent, views, fbos)>
    rebuild_swapchain,
    taken,                        \* the tuple taken out of swapchain_stuff, until destroyed
    backbuffer,                   \* "images" | "framebuffer" (the backend's kind)
    \* environment
    queue,                        \* operations on the graphics queue, in order
    signal,                       \* semaphore -> who signalled it last, unconsumed
    \* history
    recent,                       \* slots of the latest consecutive Ok frames
    last_call,                    \* [failed, slot] of the latest draw_clear_frame
    frames,                       \* [counted, calls, ok] since HalState::new
    \* locals of the block of new and recreate_swapchain that derives the
    \* SwapchainConfig (hal_state.rs:109-163, 364-417)
    compatibility,                \* what surface.compatibility returned
    swapchain_config,             \* [status, present_mode, image_count]
    \* locals of the format selection (hal_state.rs:133-146, 387-400;
    \* main.rs:121-131)
    preferred_formats,            \* Option<Vec<Format>> of surface.compatibility
    format,                       \* [status, format]
    \* the extent (hal_state.rs:72, 147, 356, 401)
    surface_extents,              \* [current_extent, extents_end] of the capabilities
    window,                       \* size of the window passed to new / recreate_swapchain
    extent,                       \* the extent given to the SwapchainConfig
    \* new and recreate_swapchain side by side (hal_state.rs:109-268, 363-503)
    surface_answer,               \* what the surface, the device and the build answer
    created,                      \* [by_new, by_recreate]: what each built from it
    \* history
    attachment                    \* formats of the render pass's color attachment
                                  \* and of the swapchain; render passes created, mod 2

halVars == <<current_frame, frames_in_flight, in_flight_fences,
             image_available_semaphores, render_finished_semaphores,
             command_buffers, framebuffers, image_views, render_pass,
             swapchain, recent, last_call, frames>>
frameVars == <<slot>>
mainVars == <<swapchain_stuff, rebuild_swapchain, taken, backbuffer>>
envVars == <<queue, signal>>
formatVars == <<preferred_formats, format>>
extentVars == <<surface_extents, window, extent>>
creationVars == <<surface_answer, created>>
selectionVars == <<compatibility, swapchain_config, formatVars, extentVars,
                   creationVars>>
configVars == <<selectionVars, attachment>>
vars == <<program, pc, halVars, frameVars, mainVars, envVars, configVars>>

\* ------------------------------------------------------------- environment

Min(a, b) == IF a < b THEN a ELSE b

\* Semaphore names: HalState's per-slot pairs and main's single pair.
IaSem(k) == <<"image_available", k>>
RfSem(k) == <<"render_finished", k>>
frame_semaphore == <<"frame_semaphore", 0>>
present_semaphore == <<"present_semaphore", 0>>
Semaphores ==
    {IaSem(k) : k \in 0..MaxImageCount} \cup {RfSem(k) : k \in 0..MaxImageCount}
        \cup {frame_semaphore, present_semaphore}

Unsignaled == [by |-> "none", img |-> 0]
NoFence == -1

\* A batch handed to CommandQueue::submit: command buffer cb, recorded
\* against the framebuffer of image img, with its fence and semaphores.
\* acq_sem is the semaphore given to the frame's acquire_image; fired tells
\* whether the presentation engine has declared that acquisition's image
\* available.
SubmitOp(cb, fence, wait, sig, img, acq_sem) ==
    [kind |-> "submit", cb |-> cb, fence |-> fence, wait |-> wait, sig |-> sig,
     img |-> img, fired |-> FALSE, acq_sem |-> acq_sem,
     sub_img |-> img, sub_sig |-> sig]

\* A present request handed to Swapchain::present; sub_img and sub_sig record
\* the submission queued before it in the same frame.
PresentOp(img, wait, sub) ==
    [kind |-> "present", cb |-> 0, fence |-> NoFence, wait |-> wait, sig |-> wait,
     img |-> img, fired |-> FALSE, acq_sem |-> wait,
     sub_img |-> sub.img, sub_sig |-> sub.sig]

Submits == {k \in DOMAIN queue : queue[k].kind = "submit"}
\* The GPU has drained the queue: Device::wait_idle returns.
GpuIdle == queue = <<>>
\* An uncompleted submission signals fence f / executes command buffer c.
FencePending(f) == \E k \in Submits : queue[k].fence = f
CbPending(c) == \E k \in Submits : queue[k].cb = c

\* The process is alive: its device has not been destroyed.
Running == pc \notin {"dropped", "crashed", "exit"}

\* The presentation engine declares the image of one pending acquisition
\* available and signals the semaphore the acquisition was given.
PeSignal ==
    \E k \in Submits :
        /\ Running
        /\ ~queue[k].fired
        /\ queue' = [queue EXCEPT ![k].fired = TRUE]
        /\ signal' = [signal EXCEPT ![queue[k].acq_sem] =
                         [by |-> "acquire", img |-> 0]]
        /\ UNCHANGED <<program, configVars, pc, halVars, frameVars, mainVars>>

\* The queue's head batch may begin once its wait semaphore is signalled.
GpuCanBegin ==
    /\ queue # <<>>
    /\ queue[1].kind = "submit"
    /\ signal[queue[1].wait].by # "none"

\* The head batch executes: its wait consumes the signal of its wait
\* semaphore; on completion its signal semaphore and its fence are signalled.
GpuExecute ==
    /\ Running
    /\ GpuCanBegin
    /\ signal' = [signal EXCEPT ![queue[1].wait] = Unsignaled,
                                ![queue[1].sig] = [by |-> "render", img |-> queue[1].img]]
    /\ in_flight_fences' =
          IF queue[1].fence + 1 \in DOMAIN in_flight_fences
          THEN [in_flight_fences EXCEPT ![queue[1].fence + 1] = "signaled"]
          ELSE in_flight_fences
    /\ queue' = Tail(queue)
    /\ UNCHANGED <<program, configVars, pc, current_frame, frames_in_flight,
                   image_available_semaphores, render_finished_semaphores,
                   command_buffers, framebuffers, image_views, render_pass,
                   swapchain, recent, last_call, frames, frameVars, mainVars>>

\* The head present request executes once its wait semaphore is signalled:
\* the image goes to the display (of a rejected request only the semaphore
\* wait is executed).
GpuPresent ==
    /\ Running
    /\ queue # <<>>
    /\ queue[1].kind = "present"
    /\ signal[queue[1].wait].by # "none"
    /\ signal' = [signal EXCEPT ![queue[1].wait] = Unsignaled]
    /\ queue' = Tail(queue)
    /\ UNCHANGED <<program, configVars, pc, halVars, frameVars, mainVars>>

\* ------------------------------------------------------ swapchain creation

\* A preference that tries Fifo before Mailbox; C20 does not hold of it.
PresentModesFifoFirst == <<"Fifo", "Mailbox", "Relaxed", "Immediate">>
\* The array the selection iterates, in its order.
PresentModes == <<"Mailbox", "Fifo", "Relaxed", "Immediate">>

\* The first of Mailbox, Fifo, Relaxed, Immediate the surface supports.
RECURSIVE FindFrom(_, _)
FindFrom(k, present_modes) ==
    IF k > Len(PresentModes) THEN "none"
    ELSE IF PresentModes[k] \in present_modes THEN PresentModes[k]
    ELSE FindFrom(k + 1, present_modes)
SelectPresentMode(present_modes) == FindFrom(1, present_modes)

\* (image_count_end - 1).min(limit) on u32 without overflow checks: 0 - 1
\* wraps to u32::MAX, of which the minimum with limit is limit.
WrappingPredMin(image_count_end, limit) ==
    IF image_count_end = 0 THEN limit ELSE Min(image_count_end - 1, limit)

ImageCount(present_mode, image_count_end) ==
    IF present_mode = "Mailbox"
    THEN WrappingPredMin(image_count_end, 3)
    ELSE WrappingPredMin(image_count_end, 2)

RequestedImages(caps) ==
    ImageCount(SelectPresentMode(caps.present_modes), caps.image_count_end)

\* What surface.compatibility and create_swapchain can answer: the end of
\* the capability range of image counts, the supported present modes, and
\* the number of images of the backbuffer, which is at least the requested
\* count and at most the surface's largest (image_count.end - 1).
Capabilities ==
    {caps \in [image_count_end : 2..MaxImageCount,
               present_modes : {{"Fifo"}, {"Mailbox", "Fifo"}},
               images : 1..MaxImageCount] :
        /\ RequestedImages(caps) <= caps.images
        /\ caps.images <= caps.image_count_end - 1}

BackbufferImages(caps) == caps.images
\* One image view per backbuffer image, one framebuffer per image view.
ImageViews(images) == images
\* A framebuffer loop that stops one image view short; C10 does not hold of it.
FramebuffersOneShort(views) == IF views > 0 THEN views - 1 ELSE 0
Framebuffers(views) == views

\* ---------------------------------------------------------------- HalState

\* History of the formats, kept by the specification SpecRebuild: the format
\* of the color attachment of the render pass in use, the format the held
\* swapchain was created with, and the number of render passes created so
\* far, modulo 2.
NoAttachment == [render_pass |-> "none", swapchain |-> "none", passes |-> 0]

\* History of the calls of draw_clear_frame, kept by the specifications
\* SpecCalls (last_call: whether the latest call returned an error, and the
\* slot it had taken) and SpecFresh (frames: the calls that have returned,
\* and those that returned Ok, since HalState::new; counting ends after
\* MaxCalls calls).
Succeeded == [failed |-> FALSE, slot |-> 0]
Failed(s) == [failed |-> TRUE, slot |-> s]
Uncounted == [counted |-> FALSE, calls |-> 0, ok |-> 0]
Returned(ok) ==
    IF frames.counted /\ frames.calls < MaxCalls
    THEN [counted |-> TRUE, calls |-> frames.calls + 1,
          ok |-> frames.ok + (IF ok THEN 1 ELSE 0)]
    ELSE Uncounted

\* HalState::new for one answer of the surface: the state it returns.
new(caps) ==
    /\ program = "hal"
    /\ pc = "idle"
    /\ swapchain = [live |-> TRUE, images |-> BackbufferImages(caps)]
    /\ frames_in_flight = RequestedImages(caps)
    /\ in_flight_fences = [k \in 1..RequestedImages(caps) |-> "signaled"]
    /\ image_available_semaphores = [k \in 1..RequestedImages(caps) |-> IaSem(k - 1)]
    /\ render_finished_semaphores = [k \in 1..RequestedImages(caps) |-> RfSem(k - 1)]
    /\ render_pass = [live |-> TRUE]
    /\ image_views = ImageViews(BackbufferImages(caps))
    /\ framebuffers = Framebuffers(ImageViews(BackbufferImages(caps)))
    /\ command_buffers = Framebuffers(ImageViews(BackbufferImages(caps)))
    /\ current_frame = 0
    /\ recent = <<>>
    /\ last_call = Succeeded
    /\ frames = [counted |-> TRUE, calls |-> 0, ok |-> 0]
    /\ swapchain_stuff = [some |-> FALSE, images |-> 0, frame_views |-> 0, framebuffers |-> 0]
    /\ rebuild_swapchain = FALSE
    /\ taken = [some |-> FALSE, images |-> 0, frame_views |-> 0, framebuffers |-> 0]
    /\ backbuffer = "images"

\* A rotation that stays on its slot; C6 does not hold of it.
NextFrameStuck(frame, in_flight) == frame
\* A rotation without the remainder; C11 does not hold of it.
NextFrameUnclamped(frame, in_flight) == frame + 1
\* A rotation that advances by two; C16 does not hold of it.
NextFrameSkips(frame, in_flight) == (frame + 2) % in_flight
\* The slot rotation of draw_clear_frame.
NextFrame(frame, in_flight) == (frame + 1) % in_flight

\* The semaphores draw_clear_frame hands to acquire_image, to the submission
\* (wait, signal) and to present, for the slot it took.
AcquireSemaphore(s) == image_available_semaphores[s + 1]
SubmitWaitSemaphore(s) == image_available_semaphores[s + 1]
SubmitSignalSemaphore(s) == render_finished_semaphores[s + 1]
\* A present that waits on the slot's image-available semaphore; C5 does not
\* hold of it.
PresentWaitsImageAvailable(s) == image_available_semaphores[s + 1]
PresentWaitSemaphore(s) == render_finished_semaphores[s + 1]
\* The command buffer recorded and submitted for an acquired image.
CommandBufferFor(i) == i

LastN(seq, n) ==
    IF Len(seq) <= n THEN seq ELSE SubSeq(seq, Len(seq) - n + 1, Len(seq))

\* draw_clear_frame, entry: take the slot's fence and semaphores, advance
\* current_frame. Indexing past a vector's end, or a remainder by zero, panics.
DrawBegin ==
    /\ program = "hal" /\ pc = "idle"
    /\ IF \/ current_frame >= Len(in_flight_fences)
          \/ current_frame >= Len(image_available_semaphores)
          \/ current_frame >= Len(render_finished_semaphores)
          \/ frames_in_flight = 0
       THEN /\ pc' = "panicked"
            /\ UNCHANGED <<slot, current_frame>>
       ELSE /\ slot' = current_frame
            /\ current_frame' = NextFrame(current_frame, frames_in_flight)
            /\ pc' = "wait"
    /\ UNCHANGED <<program, configVars, frames_in_flight, in_flight_fences,
                   image_available_semaphores, render_finished_semaphores,
                   command_buffers, framebuffers, image_views, render_pass,
                   swapchain, recent, last_call, frames, mainVars, envVars>>

\* The frame's two queue operations: command_buffers[i], recorded against
\* framebuffers[i], submitted with the slot's fence and semaphores, and the
\* present request of image i.
FrameOps(s, i) ==
    LET submission == SubmitOp(CommandBufferFor(i), s, SubmitWaitSemaphore(s),
                               SubmitSignalSemaphore(s), i, AcquireSemaphore(s))
    IN  <<submission, PresentOp(i, PresentWaitSemaphore(s), submission)>>

\* draw_clear_frame, from wait_for_fence(flight_fence, u64::MAX) to its
\* return, by the place where it ends.

\* wait_for_fence returns an error: `?` returns it.
WaitForFenceFails ==
    /\ pc' = "idle"
    /\ recent' = <<>>
    /\ UNCHANGED <<in_flight_fences, queue>>

\* The wait has returned (the fence is signalled); reset_fence returns an
\* error: `?` returns it.
ResetFenceFails ==
    /\ in_flight_fences[slot + 1] = "signaled"
    /\ pc' = "idle"
    /\ recent' = <<>>
    /\ UNCHANGED <<in_flight_fences, queue>>

\* An acquire_image that goes on to record and submit although it failed;
\* C13 does not hold of it.
AcquireImageFailsAndSubmits ==
    /\ in_flight_fences[slot + 1] = "signaled"
    /\ in_flight_fences' = [in_flight_fences EXCEPT ![slot + 1] = "unsignaled"]
    /\ pc' = "idle"
    /\ recent' = <<>>
    /\ queue' = queue \o <<SubmitOp(0, slot, image_available_semaphores[slot + 1],
                                    render_finished_semaphores[slot + 1], 0,
                                    image_available_semaphores[slot + 1])>>
\* The fence has been reset; acquire_image returns an error: `?` returns it.
AcquireImageFails ==
    /\ in_flight_fences[slot + 1] = "signaled"
    /\ in_flight_fences' = [in_flight_fences EXCEPT ![slot + 1] = "unsignaled"]
    /\ pc' = "idle"
    /\ recent' = <<>>
    /\ UNCHANGED queue

\* acquire_image on a destroyed swapchain is undefined: an error or an index
\* of the stale swapchain (the two cases around this one), or a crash.
AcquireImageCrashes ==
    /\ in_flight_fences[slot + 1] = "signaled"
    /\ ~swapchain.live
    /\ in_flight_fences' = [in_flight_fences EXCEPT ![slot + 1] = "unsignaled"]
    /\ pc' = "crashed"
    /\ UNCHANGED <<recent, queue>>

\* acquire_image returns image index i, any index of the swapchain: the
\* recording (indexing past the command buffers or the framebuffers
\* panics), the submission and the present, whose result is the call's.
RecordSubmitPresent ==
    /\ in_flight_fences[slot + 1] = "signaled"
    /\ in_flight_fences' = [in_flight_fences EXCEPT ![slot + 1] = "unsignaled"]
    /\ \E i \in 0..(swapchain.images - 1) :
          IF i >= command_buffers \/ i >= framebuffers
          THEN /\ pc' = "panicked"
               /\ UNCHANGED <<recent, queue>>
          ELSE \E presented \in BOOLEAN :
               /\ queue' = queue \o FrameOps(slot, i)
               /\ recent' = IF presented
                            THEN LastN(Append(recent, slot), frames_in_flight)
                            ELSE <<>>
               /\ pc' = "idle"

DrawFrameStep ==
    /\ program = "hal" /\ pc = "wait"
    /\ \/ WaitForFenceFails
       \/ ResetFenceFails
       \/ AcquireImageFails
       \/ AcquireImageCrashes
       \/ RecordSubmitPresent
    /\ slot' = 0
    /\ UNCHANGED <<program, configVars, current_frame, frames_in_flight,
                   image_available_semaphores, render_finished_semaphores,
                   command_buffers, framebuffers, image_views, render_pass,
                   swapchain, mainVars, signal>>

\* The step with no history of calls kept.
DrawFrame == DrawFrameStep /\ UNCHANGED <<last_call, frames>>

\* The step with the call's result observed: the call has returned when the
\* thread is back at "idle", and it returned Ok exactly when it extended
\* recent.
DrawFrameObserved ==
    /\ DrawFrameStep
    /\ last_call' = IF pc' # "idle" THEN last_call
                    ELSE IF recent' = <<>> THEN Failed(slot) ELSE Succeeded
    /\ UNCHANGED frames

\* The step with the calls counted.
DrawFrameCounted ==
    /\ DrawFrameStep
    /\ frames' = IF pc' = "idle" THEN Returned(recent' # <<>>) ELSE frames
    /\ UNCHANGED last_call

\* Device::wait_idle: it returns Ok once the GPU has drained the queue, or
\* an error of the backend at any time.
wait_idle(ok) == ok => GpuIdle

\* A teardown that destroys the image views before the framebuffers built
\* from them; C17 does not hold of it.
CleanupSwapchainStepsViewsFirst ==
    <<"wait_idle", "destroy_image_views", "destroy_framebuffers",
      "command_pool_reset", "destroy_render_pass", "destroy_swapchain">>
\* The statements of cleanup_swapchain, in program order.
CleanupSwapchainSteps ==
    <<"wait_idle", "destroy_framebuffers", "command_pool_reset",
      "destroy_render_pass", "destroy_image_views", "destroy_swapchain">>

\* cleanup_swapchain: what it leaves in the four swapchain fields. The
\* result of wait_idle is dropped; the vectors are drained; the two
\* ManuallyDrop handles are read out and destroyed, the fields keeping the
\* destroyed handles.
cleanup_swapchain ==
    /\ \E idle \in BOOLEAN : wait_idle(idle)
    /\ framebuffers' = 0
    /\ render_pass' = [render_pass EXCEPT !.live = FALSE]
    /\ image_views' = 0
    /\ swapchain' = [swapchain EXCEPT !.live = FALSE]

\* A range that takes in the fence at its start; C23 does not hold of it.
SliceFromTo(from, to) == from..to
\* The indices of the slice [from..to] of a vector: to is excluded.
Slice(from, to) == from..(to - 1)
\* reset_fences on the fences of the given indices.
ResetFences(fences, indices) ==
    [k \in DOMAIN fences |-> IF (k - 1) \in indices THEN "unsignaled" ELSE fences[k]]

\* recreate_swapchain: cleanup_swapchain; the reset_fences call on the empty
\* slice in_flight_fences[current_frame..current_frame], which panics when
\* current_frame is past the vector's end; then either one of the `?`
\* returns its error, leaving the torn-down fields, or the new swapchain,
\* render pass, views and framebuffers are stored and the frame count
\* re-derived.
RecreateSwapchainStep ==
    /\ program = "hal" /\ pc = "idle"
    /\ IF current_frame > Len(in_flight_fences)
       THEN /\ cleanup_swapchain
            /\ pc' = "panicked"
            /\ UNCHANGED <<frames_in_flight, current_frame>>
       ELSE /\ \/ /\ cleanup_swapchain
                  /\ UNCHANGED <<frames_in_flight, current_frame>>
               \/ \E caps \in Capabilities :
                     /\ \E idle \in BOOLEAN : wait_idle(idle)
                     /\ swapchain' = [live |-> TRUE, images |-> BackbufferImages(caps)]
                     /\ render_pass' = [live |-> TRUE]
                     /\ image_views' = ImageViews(BackbufferImages(caps))
                     /\ framebuffers' = Framebuffers(ImageViews(BackbufferImages(caps)))
                     /\ frames_in_flight' = RequestedImages(caps)
                     /\ current_frame' = NextFrame(current_frame, RequestedImages(caps))
            /\ pc' = pc
    /\ in_flight_fences' =
           IF current_frame > Len(in_flight_fences) THEN in_flight_fences
           ELSE ResetFences(in_flight_fences, Slice(current_frame, current_frame))
    /\ recent' = <<>>
    /\ UNCHANGED <<program, selectionVars, image_available_semaphores,
                   render_finished_semaphores, command_buffers, last_call,
                   frames, frameVars, mainVars, envVars>>

\* The call with no history of formats kept.
recreate_swapchain == RecreateSwapchainStep /\ UNCHANGED attachment

\* The statements of drop, in program order, cleanup_swapchain's included.
DropSteps ==
    <<"wait_idle"
    >> \o CleanupSwapchainSteps \o
    <<"destroy_fences", "destroy_image_available_semaphores",
      "destroy_render_finished_semaphores", "destroy_command_pool",
      "drop_device", "drop_instance">>

\* drop: wait_idle (result dropped), cleanup_swapchain, then every fence and
\* semaphore, the command pool, the device with its queue, and the instance
\* are destroyed. A panic of a method unwinds into drop as well.
drop ==
    /\ program = "hal" /\ pc \in {"idle", "panicked"}
    /\ \E idle \in BOOLEAN : wait_idle(idle)
    /\ cleanup_swapchain
    /\ in_flight_fences' = <<>>
    /\ image_available_semaphores' = <<>>
    /\ render_finished_semaphores' = <<>>
    /\ command_buffers' = 0
    /\ queue' = <<>>
    /\ signal' = [s \in Semaphores |-> Unsignaled]
    /\ pc' = "dropped"
    /\ UNCHANGED <<program, configVars, current_frame, frames_in_flight, recent, last_call,
                   frames, slot, mainVars>>

\* -------------------------------------------------------------------- main

None == [some |-> FALSE, images |-> 0, frame_views |-> 0, framebuffers |-> 0]

\* main before its loop: no swapchain yet, nothing to rebuild.
main(kind) ==
    /\ program = "main"
    /\ pc = "poll"
    /\ backbuffer = kind
    /\ swapchain_stuff = None
    /\ rebuild_swapchain = FALSE
    /\ taken = None
    /\ swapchain = [live |-> FALSE, images |-> 0]
    /\ frames_in_flight = 0
    /\ in_flight_fences = <<>>
    /\ image_available_semaphores = <<>>
    /\ render_finished_semaphores = <<>>
    /\ render_pass = [live |-> TRUE]
    /\ image_views = 0
    /\ framebuffers = 0
    /\ command_buffers = 0
    /\ current_frame = 0
    /\ recent = <<>>
    /\ last_call = Succeeded
    /\ frames = Uncounted

\* What main's create_swapchain returns with the backbuffer: the image
\* count SwapchainConfig::from_caps derives, and the views and framebuffers
\* built from the backbuffer's kind.
SwapchainStuff(kind, images) ==
    IF kind = "images"
    THEN [some |-> TRUE, images |-> images, frame_views |-> ImageViews(images),
          framebuffers |-> Framebuffers(ImageViews(images))]
    ELSE [some |-> TRUE, images |-> images, frame_views |-> 0, framebuffers |-> 1]

\* The indices main's acquire_image can return: any image of a swapchain of
\* images, the single framebuffer's index otherwise.
FrameIndices == IF backbuffer = "images" THEN 0..(swapchain_stuff.images - 1) ELSE {0}

\* A frame cut short after its submission; C25 does not hold of it.
MainFrameOpsCutShort(frame_index) ==
    <<SubmitOp(0, NoFence, frame_semaphore, present_semaphore, frame_index,
               frame_semaphore)>>
\* The iteration's two queue operations: a fresh command buffer of the
\* pool, recorded against framebuffers[frame_index], submitted without a
\* fence, and the present request.
MainFrameOps(frame_index) ==
    LET submission == SubmitOp(0, NoFence, frame_semaphore, present_semaphore,
                               frame_index, frame_semaphore)
    IN  <<submission, PresentOp(frame_index, present_semaphore, submission)>>

\* The statements of main after its loop, in program order: no wait_idle
\* among them, nothing of swapchain_stuff destroyed; the device, a local of
\* main, is dropped when main returns.
MainExitSteps ==
    <<"destroy_graphics_pipeline", "destroy_pipeline_layout",
      "destroy_render_pass", "destroy_shader_module", "destroy_shader_module",
      "destroy_command_pool", "destroy_semaphore", "destroy_semaphore",
      "drop_device">>

\* One iteration's head: poll_events, the quit test, and the take() of the
\* swapchain to rebuild. On quit the loop is left by `break` and the
\* statements after the loop run: the render pass is destroyed with the
\* pipeline, the pool and the two semaphores; swapchain_stuff is left as
\* it is.
MainPoll ==
    /\ program = "main" /\ pc = "poll"
    /\ \E quitting \in BOOLEAN, resized \in BOOLEAN :
          /\ rebuild_swapchain' = (rebuild_swapchain \/ resized)
          /\ IF quitting
             THEN /\ pc' = "exit"
                  /\ render_pass' = [render_pass EXCEPT !.live = FALSE]
                  /\ UNCHANGED <<swapchain_stuff, taken>>
             ELSE IF rebuild_swapchain' /\ swapchain_stuff.some
             THEN /\ taken' = swapchain_stuff
                  /\ swapchain_stuff' = None
                  /\ pc' = "teardown"
                  /\ UNCHANGED render_pass
             ELSE /\ pc' = "build"
                  /\ UNCHANGED <<swapchain_stuff, taken, render_pass>>
    /\ UNCHANGED <<program, configVars, current_frame, frames_in_flight, in_flight_fences,
                   image_available_semaphores, render_finished_semaphores,
                   command_buffers, framebuffers, image_views, swapchain,
                   recent, last_call, frames, frameVars, backbuffer, envVars>>

\* The statements of main's teardown after a wait_idle that returned Ok, in
\* program order. The render pass is not part of it: main creates it once,
\* before the loop, and destroys it after the loop.
MainTeardownSteps ==
    <<"wait_idle", "command_pool_reset", "destroy_framebuffers",
      "destroy_image_views", "destroy_swapchain">>

\* The teardown of the taken swapchain: wait_idle, then the pool reset and
\* the destroys, after which nothing of the taken tuple exists; on
\* wait_idle's error the iteration is abandoned by `continue`, which drops
\* the taken swapchain, views and framebuffers without destroying them:
\* taken keeps describing those objects.
MainTeardown ==
    /\ program = "main" /\ pc = "teardown"
    /\ \E idle \in BOOLEAN :
          /\ wait_idle(idle)
          /\ pc' = IF idle THEN "build" ELSE "poll"
          /\ taken' = IF idle THEN None ELSE taken
    /\ UNCHANGED <<program, configVars, halVars, frameVars, swapchain_stuff,
                   rebuild_swapchain, backbuffer, envVars>>

\* The (re)build when no swapchain is held.
MainBuildStep ==
    /\ program = "main" /\ pc = "build"
    /\ IF ~swapchain_stuff.some
       THEN /\ rebuild_swapchain' = FALSE
            /\ \E images \in 1..MaxImageCount :
                  swapchain_stuff' = SwapchainStuff(backbuffer, images)
       ELSE UNCHANGED <<rebuild_swapchain, swapchain_stuff>>
    /\ pc' = "render"
    /\ UNCHANGED <<program, selectionVars, halVars, frameVars, taken, backbuffer,
                   envVars>>

\* The step with no history of formats kept.
MainBuild == MainBuildStep /\ UNCHANGED attachment

\* The rendering half of an iteration: command_pool.reset(), then
\* acquire_image(Semaphore(&frame_semaphore)), by the place where it ends.

\* acquire_image returns an error: the swapchain is marked for rebuild and
\* `continue` abandons the iteration.
MainAcquireFails ==
    /\ rebuild_swapchain' = TRUE
    /\ UNCHANGED queue

\* acquire_image returns frame_index: record, submit, present; a failed
\* present marks the swapchain for rebuild.
MainRecordSubmitPresent ==
    \E i \in FrameIndices, presented \in BOOLEAN :
        /\ i < swapchain_stuff.framebuffers
        /\ queue' = queue \o MainFrameOps(i)
        /\ rebuild_swapchain' = (rebuild_swapchain \/ ~presented)

MainFrame ==
    /\ program = "main" /\ pc = "render"
    /\ Len(queue) + 2 <= MaxQueue
    /\ \/ MainAcquireFails
       \/ MainRecordSubmitPresent
    /\ pc' = "poll"
    /\ UNCHANGED <<program, configVars, halVars, frameVars, swapchain_stuff, taken,
                   backbuffer, signal>>

\* ------------------------------------------------- swapchain configuration

NotQueried == [present_modes |-> {}, image_count_end |-> 0]
NoConfig == [status |-> "none", present_mode |-> "none", image_count |-> 0]

\* The block of new and recreate_swapchain from surface.compatibility to
\* image_count: the `?` on the present mode returns the error before the
\* image count is computed; image_count.end - 1 on an end of 0 panics in a
\* build with overflow checks and wraps in a build without.
ConfigureSwapchain ==
    /\ program = "hal" /\ pc = "configure"
    /\ LET present_mode == SelectPresentMode(compatibility.present_modes)
           image_count_end == compatibility.image_count_end
       IN  IF present_mode = "none"
           THEN /\ swapchain_config' = [NoConfig EXCEPT !.status = "error"]
                /\ pc' = "failed"
           ELSE \E overflow_checks \in BOOLEAN :
                   IF image_count_end = 0 /\ overflow_checks
                   THEN /\ swapchain_config' = [NoConfig EXCEPT !.status = "panic"]
                        /\ pc' = "panicked"
                   ELSE /\ swapchain_config' =
                              [status |-> "ok", present_mode |-> present_mode,
                               image_count |-> ImageCount(present_mode, image_count_end)]
                        /\ pc' = "configured"
    /\ UNCHANGED <<program, compatibility, formatVars, extentVars, creationVars,
                   attachment, halVars, frameVars, mainVars, envVars>>

\* -------------------------------------------------------- format selection

\* The formats a surface advertises here, and the channel type of each
\* (format.base_format().1).
Formats == {"Rgba8Srgb", "Bgra8Srgb", "Rgba8Unorm", "Bgra8Unorm"}
ChannelType(f) == IF f \in {"Rgba8Srgb", "Bgra8Srgb"} THEN "Srgb" ELSE "Unorm"

NoFormats == [some |-> FALSE, list |-> <<>>]
NoFormat == [status |-> "none", format |-> "none"]
Selected(f) == [status |-> "ok", format |-> f]

\* iter().find(|format| format.base_format().1 == ChannelType::Srgb): the
\* index of the first sRGB format of the list, 0 when there is none.
RECURSIVE FindSrgbFrom(_, _)
FindSrgbFrom(k, list) ==
    IF k > Len(list) THEN 0
    ELSE IF ChannelType(list[k]) = "Srgb" THEN k
    ELSE FindSrgbFrom(k + 1, list)

\* HalState's selection, the same in new and in recreate_swapchain: None
\* gives Rgba8Srgb; Some(formats) gives the first sRGB format, or else
\* formats.get(0), whose absence is the error.
SelectFormat(formats) ==
    IF ~formats.some THEN Selected("Rgba8Srgb")
    ELSE IF FindSrgbFrom(1, formats.list) # 0
    THEN Selected(formats.list[FindSrgbFrom(1, formats.list)])
    ELSE IF Len(formats.list) > 0 THEN Selected(formats.list[1])
    ELSE [NoFormat EXCEPT !.status = "error"]

\* main's selection: None gives Rgba8Srgb; Some(choices) gives the first
\* sRGB format, unwrapped: a list without one panics.
MainSelectFormat(formats) ==
    IF ~formats.some THEN Selected("Rgba8Srgb")
    ELSE IF FindSrgbFrom(1, formats.list) # 0
    THEN Selected(formats.list[FindSrgbFrom(1, formats.list)])
    ELSE [NoFormat EXCEPT !.status = "panic"]

\* The selection applied to what surface.compatibility returned.
SelectSurfaceFormat ==
    /\ pc = "select_format"
    /\ format' = IF program = "hal" THEN SelectFormat(preferred_formats)
                 ELSE MainSelectFormat(preferred_formats)
    /\ pc' = IF format'.status = "ok" THEN "format_selected"
             ELSE IF format'.status = "error" THEN "failed" ELSE "panicked"
    /\ UNCHANGED <<program, preferred_formats, compatibility, swapchain_config,
                   extentVars, creationVars, attachment, halVars, frameVars,
                   mainVars, envVars>>

\* ------------------------------------------------------------- the extent

\* Extent2D values, the capabilities' pair of them, and no extent.
Extents == [width : 1..MaxExtent, height : 1..MaxExtent]
NoExtent == [width |-> 0, height |-> 0]
NoExtents == [current_extent |-> NoExtent, extents_end |-> NoExtent]

\* let extent = caps.extents.end: the end of the capabilities' range of
\* extents; the window is not consulted.
Extent(caps, size) == caps.extents_end

\* The statement applied to the capabilities and the window.
SelectExtent ==
    /\ program = "hal" /\ pc = "select_extent"
    /\ extent' = Extent(surface_extents, window)
    /\ pc' = "extent_selected"
    /\ UNCHANGED <<program, surface_extents, window, compatibility,
                   swapchain_config, formatVars, creationVars, attachment,
                   halVars, frameVars, mainVars, envVars>>

\* A color attachment that takes a fixed format whatever was selected; C22
\* does not hold of it.
ColorAttachmentFormatFixed(selected) == "Rgba8Srgb"
\* The format of the render pass's color attachment: Some(format), the
\* selected one.
ColorAttachmentFormat(selected) == selected

\* ------------------------------------- new and recreate_swapchain compared

CompositeAlphas == <<"Opaque", "Inherit", "PreMultiplied", "PostMultiplied">>

\* The first of Opaque, Inherit, PreMultiplied, PostMultiplied the surface
\* supports.
RECURSIVE FindAlphaFrom(_, _)
FindAlphaFrom(k, composite_alphas) ==
    IF k > Len(CompositeAlphas) THEN "none"
    ELSE IF CompositeAlphas[k] \in composite_alphas THEN CompositeAlphas[k]
    ELSE FindAlphaFrom(k + 1, composite_alphas)
SelectCompositeAlpha(composite_alphas) == FindAlphaFrom(1, composite_alphas)

NoAnswer ==
    [present_modes |-> {}, composite_alphas |-> {}, preferred_formats |-> NoFormats,
     extents |-> NoExtents, image_count_end |-> 0, color_attachment |-> FALSE,
     backbuffer |-> "images", images |-> 0, overflow_checks |-> FALSE]
NotCreated ==
    [status |-> "none", error |-> "", present_mode |-> "none",
     composite_alpha |-> "none", format |-> "none", extent |-> NoExtent,
     image_count |-> 0, render_pass |-> "none", render_area |-> NoExtent,
     image_views |-> 0, framebuffers |-> 0, frames_in_flight |-> 0]
NothingCreated == [by_new |-> NotCreated, by_recreate |-> NotCreated]
Err(message) == [NotCreated EXCEPT !.status = "error", !.error = message]
Panicked == [NotCreated EXCEPT !.status = "panic"]

\* HalState::new from surface.compatibility to the framebuffers: the
\* selections and their `?` in program order, the image count with its
\* subtraction, the usage test, then the render pass, and one image view
\* per image of the backbuffer and one framebuffer per image view.
NewSwapchain(answer) ==
    LET present_mode == SelectPresentMode(answer.present_modes)
        composite_alpha == SelectCompositeAlpha(answer.composite_alphas)
        selected == SelectFormat(answer.preferred_formats)
        chosen_extent == Extent(answer.extents, NoExtent)
        image_count == ImageCount(present_mode, answer.image_count_end)
    IN  IF present_mode = "none" THEN Err("No PresentMode values specified!")
        ELSE IF composite_alpha = "none" THEN Err("No CompositeAlpha values specified")
        ELSE IF selected.status = "error" THEN Err("Preffered format list was empty")
        ELSE IF answer.image_count_end = 0 /\ answer.overflow_checks THEN Panicked
        ELSE IF ~answer.color_attachment
        THEN Err("The surfade isn't capable of supporting color")
        ELSE IF answer.backbuffer = "framebuffer" THEN Panicked
        ELSE [status |-> "ok", error |-> "", present_mode |-> present_mode,
              composite_alpha |-> composite_alpha, format |-> selected.format,
              extent |-> chosen_extent, image_count |-> image_count,
              render_pass |-> ColorAttachmentFormat(selected.format),
              render_area |-> chosen_extent,
              image_views |-> ImageViews(answer.images),
              framebuffers |-> Framebuffers(ImageViews(answer.images)),
              frames_in_flight |-> image_count]

\* A recreate_swapchain that asks for two images whatever the surface
\* reports; C26 does not hold of it.
RecreatedSwapchainTwoImages(answer) ==
    [NewSwapchain(answer) EXCEPT !.image_count = 2, !.frames_in_flight = 2]
\* recreate_swapchain from surface.compatibility to the framebuffers, and
\* the values it stores in swapchain, render_area, render_pass, image_views,
\* framebuffers and frames_in_flight.
RecreatedSwapchain(answer) ==
    LET present_mode == SelectPresentMode(answer.present_modes)
        composite_alpha == SelectCompositeAlpha(answer.composite_alphas)
        selected == SelectFormat(answer.preferred_formats)
        chosen_extent == Extent(answer.extents, NoExtent)
        image_count == ImageCount(present_mode, answer.image_count_end)
    IN  IF present_mode = "none" THEN Err("No PresentMode values specified!")
        ELSE IF composite_alpha = "none" THEN Err("No CompositeAlpha values specified")
        ELSE IF selected.status = "error" THEN Err("Preffered format list was empty")
        ELSE IF answer.image_count_end = 0 /\ answer.overflow_checks THEN Panicked
        ELSE IF ~answer.color_attachment
        THEN Err("The surfade isn't capable of supporting color")
        ELSE IF answer.backbuffer = "framebuffer" THEN Panicked
        ELSE [status |-> "ok", error |-> "", present_mode |-> present_mode,
              composite_alpha |-> composite_alpha, format |-> selected.format,
              extent |-> chosen_extent, image_count |-> image_count,
              render_pass |-> ColorAttachmentFormat(selected.format),
              render_area |-> chosen_extent,
              image_views |-> ImageViews(answer.images),
              framebuffers |-> Framebuffers(ImageViews(answer.images)),
              frames_in_flight |-> image_count]

\* HalState::new on the answer.
CreateByNew ==
    /\ program = "hal" /\ pc = "compare"
    /\ created.by_new.status = "none"
    /\ created' = [created EXCEPT !.by_new = NewSwapchain(surface_answer)]
    /\ UNCHANGED <<program, pc, surface_answer, compatibility, swapchain_config,
                   formatVars, extentVars, attachment, halVars, frameVars,
                   mainVars, envVars>>

\* recreate_swapchain on the answer.
CreateByRecreate ==
    /\ program = "hal" /\ pc = "compare"
    /\ created.by_recreate.status = "none"
    /\ created' = [created EXCEPT !.by_recreate = RecreatedSwapchain(surface_answer)]
    /\ UNCHANGED <<program, pc, surface_answer, compatibility, swapchain_config,
                   formatVars, extentVars, attachment, halVars, frameVars,
                   mainVars, envVars>>

\* ------------------------------------------------ the formats, as history

\* The answers of the surface the history of formats is kept for: no list,
\* a list whose second format is sRGB, a list without an sRGB format.
Advertisements ==
    {NoFormats,
     [some |-> TRUE, list |-> <<"Rgba8Unorm", "Bgra8Srgb">>],
     [some |-> TRUE, list |-> <<"Bgra8Unorm">>]}

\* recreate_swapchain with the formats kept: on success the format selected
\* from the surface's answer is given to the SwapchainConfig and to the
\* color attachment of the render pass created after it; on an error or a
\* panic the fields hold destroyed handles.
RecreateObserved ==
    /\ RecreateSwapchainStep
    /\ IF swapchain'.live
       THEN \E formats \in Advertisements :
               /\ SelectFormat(formats).status = "ok"
               /\ attachment' = [render_pass |->
                                     ColorAttachmentFormat(SelectFormat(formats).format),
                                 swapchain |-> SelectFormat(formats).format,
                                 passes |-> (attachment.passes + 1) % 2]
       ELSE attachment' = [NoAttachment EXCEPT !.passes = attachment.passes]

\* main's build with the formats kept: SwapchainConfig::from_caps is given
\* surface_color_format, selected once before the loop, which is also the
\* format of the render pass created before the loop; no render pass is
\* created here.
MainBuildObserved ==
    /\ MainBuildStep
    /\ attachment' = IF ~swapchain_stuff.some
                     THEN [attachment EXCEPT !.swapchain = attachment.render_pass]
                     ELSE attachment

\* ----------------------------------------------------------- specification

Init ==
    /\ program \in {"hal", "main"}
    /\ IF program = "hal"
       THEN \E caps \in Capabilities : new(caps)
       ELSE \E kind \in {"images", "framebuffer"} : main(kind)
    /\ slot = 0
    /\ queue = <<>>
    /\ signal = [s \in Semaphores |-> Unsignaled]
    /\ compatibility = NotQueried
    /\ swapchain_config = NoConfig
    /\ preferred_formats = NoFormats
    /\ format = NoFormat
    /\ attachment = NoAttachment
    /\ surface_extents = NoExtents /\ window = NoExtent /\ extent = NoExtent
    /\ surface_answer = NoAnswer /\ created = NothingCreated

Next ==
    \/ DrawBegin \/ DrawFrame
    \/ recreate_swapchain \/ drop
    \/ MainPoll \/ MainTeardown \/ MainBuild \/ MainFrame
    \/ PeSignal
    \/ GpuExecute \/ GpuPresent

Spec == Init /\ [][Next]_vars

\* HalState with the result of its latest draw_clear_frame observed.
InitHal == Init /\ program = "hal"
NextCalls ==
    \/ DrawBegin \/ DrawFrameObserved
    \/ recreate_swapchain \/ drop
    \/ PeSignal
    \/ GpuExecute \/ GpuPresent
SpecCalls == InitHal /\ [][NextCalls]_vars

\* A freshly created HalState on which recreate_swapchain is never called,
\* its draw_clear_frame calls counted.
NextFresh ==
    \/ DrawBegin \/ DrawFrameCounted
    \/ drop
    \/ PeSignal
    \/ GpuExecute \/ GpuPresent
SpecFresh == InitHal /\ [][NextFresh]_vars

\* The configuration block alone, on every answer of surface.compatibility:
\* any set of the four present modes, any image_count.end up to the bound.
\* No HalState exists yet.
InitConfig ==
    /\ program = "hal" /\ pc = "configure"
    /\ compatibility \in [present_modes : SUBSET {"Mailbox", "Fifo", "Relaxed", "Immediate"},
                          image_count_end : 0..MaxImageCountEnd]
    /\ swapchain_config = NoConfig
    /\ preferred_formats = NoFormats /\ format = NoFormat
    /\ attachment = NoAttachment
    /\ surface_extents = NoExtents /\ window = NoExtent /\ extent = NoExtent
    /\ surface_answer = NoAnswer /\ created = NothingCreated
    /\ current_frame = 0 /\ frames_in_flight = 0
    /\ in_flight_fences = <<>>
    /\ image_available_semaphores = <<>>
    /\ render_finished_semaphores = <<>>
    /\ command_buffers = 0 /\ framebuffers = 0 /\ image_views = 0
    /\ render_pass = [live |-> FALSE]
    /\ swapchain = [live |-> FALSE, images |-> 0]
    /\ recent = <<>> /\ last_call = Succeeded /\ frames = Uncounted
    /\ slot = 0
    /\ swapchain_stuff = None /\ rebuild_swapchain = FALSE /\ taken = None
    /\ backbuffer = "images"
    /\ queue = <<>>
    /\ signal = [s \in Semaphores |-> Unsignaled]
SpecConfig == InitConfig /\ [][ConfigureSwapchain]_vars

\* Both programs with the history of formats: HalState::new gives the
\* selected format to the swapchain and to the render pass; main creates
\* its render pass with surface_color_format and has no swapchain yet.
InitRebuild ==
    /\ program \in {"hal", "main"}
    /\ IF program = "hal"
       THEN /\ \E caps \in Capabilities : new(caps)
            /\ \E formats \in Advertisements :
                  /\ SelectFormat(formats).status = "ok"
                  /\ attachment = [render_pass |->
                                       ColorAttachmentFormat(SelectFormat(formats).format),
                                   swapchain |-> SelectFormat(formats).format,
                                   passes |-> 1]
       ELSE /\ \E kind \in {"images", "framebuffer"} : main(kind)
            /\ \E formats \in Advertisements :
                  /\ MainSelectFormat(formats).status = "ok"
                  /\ attachment = [render_pass |->
                                       ColorAttachmentFormat(MainSelectFormat(formats).format),
                                   swapchain |-> "none",
                                   passes |-> 1]
    /\ slot = 0
    /\ queue = <<>>
    /\ signal = [s \in Semaphores |-> Unsignaled]
    /\ compatibility = NotQueried
    /\ swapchain_config = NoConfig
    /\ preferred_formats = NoFormats
    /\ format = NoFormat
    /\ surface_extents = NoExtents /\ window = NoExtent /\ extent = NoExtent
    /\ surface_answer = NoAnswer /\ created = NothingCreated
NextRebuild ==
    \/ DrawBegin \/ DrawFrame
    \/ RecreateObserved \/ drop
    \/ MainPoll \/ MainTeardown \/ MainBuildObserved \/ MainFrame
    \/ PeSignal
    \/ GpuExecute \/ GpuPresent
SpecRebuild == InitRebuild /\ [][NextRebuild]_vars

\* The format selection alone, of either program, on every answer of
\* surface.compatibility: no list, or any list of up to MaxFormats formats.
\* Nothing else exists yet.
FormatLists == UNION {[1..n -> Formats] : n \in 0..MaxFormats}
InitFormat ==
    /\ program \in {"hal", "main"} /\ pc = "select_format"
    /\ preferred_formats \in
           {NoFormats} \cup {[some |-> TRUE, list |-> l] : l \in FormatLists}
    /\ format = NoFormat
    /\ attachment = NoAttachment
    /\ surface_extents = NoExtents /\ window = NoExtent /\ extent = NoExtent
    /\ surface_answer = NoAnswer /\ created = NothingCreated
    /\ compatibility = NotQueried /\ swapchain_config = NoConfig
    /\ current_frame = 0 /\ frames_in_flight = 0
    /\ in_flight_fences = <<>>
    /\ image_available_semaphores = <<>>
    /\ render_finished_semaphores = <<>>
    /\ command_buffers = 0 /\ framebuffers = 0 /\ image_views = 0
    /\ render_pass = [live |-> FALSE]
    /\ swapchain = [live |-> FALSE, images |-> 0]
    /\ recent = <<>> /\ last_call = Succeeded /\ frames = Uncounted
    /\ slot = 0
    /\ swapchain_stuff = None /\ rebuild_swapchain = FALSE /\ taken = None
    /\ backbuffer = "images"
    /\ queue = <<>>
    /\ signal = [s \in Semaphores |-> Unsignaled]
SpecFormat == InitFormat /\ [][SelectSurfaceFormat]_vars

\* new and recreate_swapchain on the same answers of the surface (present
\* modes, composite alphas, formats, extents, image_count.end, usage), of
\* create_swapchain (the backbuffer) and of the build (overflow checks).
Answers ==
    [present_modes : {{}, {"Fifo"}, {"Mailbox", "Fifo"}, {"Relaxed", "Immediate"}},
     composite_alphas : {{}, {"Opaque"}, {"Inherit", "PostMultiplied"}},
     preferred_formats : Advertisements \cup {[some |-> TRUE, list |-> <<>>]},
     extents : {[current_extent |-> [width |-> 1, height |-> 1],
                 extents_end |-> [width |-> 1, height |-> 2]]},
     image_count_end : 0..MaxImageCountEnd,
     color_attachment : BOOLEAN,
     backbuffer : {"images", "framebuffer"},
     images : 1..MaxImageCount,
     overflow_checks : BOOLEAN]
InitCompare ==
    /\ program = "hal" /\ pc = "compare"
    /\ surface_answer \in Answers
    /\ created = NothingCreated
    /\ surface_extents = NoExtents /\ window = NoExtent /\ extent = NoExtent
    /\ preferred_formats = NoFormats /\ format = NoFormat
    /\ attachment = NoAttachment
    /\ compatibility = NotQueried /\ swapchain_config = NoConfig
    /\ current_frame = 0 /\ frames_in_flight = 0
    /\ in_flight_fences = <<>>
    /\ image_available_semaphores = <<>>
    /\ render_finished_semaphores = <<>>
    /\ command_buffers = 0 /\ framebuffers = 0 /\ image_views = 0
    /\ render_pass = [live |-> FALSE]
    /\ swapchain = [live |-> FALSE, images |-> 0]
    /\ recent = <<>> /\ last_call = Succeeded /\ frames = Uncounted
    /\ slot = 0
    /\ swapchain_stuff = None /\ rebuild_swapchain = FALSE /\ taken = None
    /\ backbuffer = "images"
    /\ queue = <<>>
    /\ signal = [s \in Semaphores |-> Unsignaled]
NextCompare == CreateByNew \/ CreateByRecreate
SpecCompare == InitCompare /\ [][NextCompare]_vars

\* The extent statement alone, on every answer of the surface (a current
\* extent within the range of extents) and every size of the window.
InitExtent ==
    /\ program = "hal" /\ pc = "select_extent"
    /\ surface_extents \in
           {e \in [current_extent : Extents, extents_end : Extents] :
               /\ e.current_extent.width <= e.extents_end.width
               /\ e.current_extent.height <= e.extents_end.height}
    /\ window \in Extents
    /\ extent = NoExtent
    /\ surface_answer = NoAnswer /\ created = NothingCreated
    /\ preferred_formats = NoFormats /\ format = NoFormat
    /\ attachment = NoAttachment
    /\ compatibility = NotQueried /\ swapchain_config = NoConfig
    /\ current_frame = 0 /\ frames_in_flight = 0
    /\ in_flight_fences = <<>>
    /\ image_available_semaphores = <<>>
    /\ render_finished_semaphores = <<>>
    /\ command_buffers = 0 /\ framebuffers = 0 /\ image_views = 0
    /\ render_pass = [live |-> FALSE]
    /\ swapchain = [live |-> FALSE, images |-> 0]
    /\ recent = <<>> /\ last_call = Succeeded /\ frames = Uncounted
    /\ slot = 0
    /\ swapchain_stuff = None /\ rebuild_swapchain = FALSE /\ taken = None
    /\ backbuffer = "images"
    /\ queue = <<>>
    /\ signal = [s \in Semaphores |-> Unsignaled]
SpecExtent == InitExtent /\ [][SelectExtent]_vars

\* ------------------------------------------------------------------ claims

\* C1. Whenever draw_clear_frame waits on the fence of the slot it took, the
\* fence is signalled (initially, or by a completed batch) or an uncompleted
\* submission has been handed it since its last reset, so the wait returns
\* once the GPU completes its batches.
C1_WaitedFenceWillBeSignaled ==
    (program = "hal" /\ pc = "wait") =>
        (in_flight_fences[slot + 1] = "signaled" \/ FencePending(slot))

\* C2. draw_clear_frame never begins re-recording a command buffer while an
\* earlier submission of the same command buffer is uncompleted: no two
\* uncompleted submissions are of one command buffer.
C2_NoRerecordWhilePending ==
    program = "hal" =>
        \A j \in Submits, k \in Submits : j < k => queue[j].cb # queue[k].cb

\* C3. main resets its command pool (the first statement of the rendering
\* half of an iteration) only when no submission of an earlier iteration is
\* uncompleted.
C3_PoolResetAfterCompletion ==
    (program = "main" /\ pc = "render") => Submits = {}

\* C4. Every submission waits on the semaphore its frame's acquisition
\* signals, and the GPU begins a batch only after the presentation engine
\* has declared the image of that batch's own acquisition available.
C4_RenderAfterImageAvailable ==
    /\ \A k \in Submits : queue[k].wait = queue[k].acq_sem
    /\ GpuCanBegin => queue[1].fired

\* C5. A present request of image i follows, in its frame, a submission that
\* renders into image i; it waits on the semaphore that submission signals;
\* and when it executes, the signal it consumes is that of the completed
\* rendering into image i.
C5_PresentAfterRender ==
    \A k \in DOMAIN queue :
        queue[k].kind = "present" =>
            /\ queue[k].sub_img = queue[k].img
            /\ queue[k].sub_sig = queue[k].wait
            /\ k > 1 => /\ queue[k - 1].kind = "submit"
                        /\ queue[k - 1].img = queue[k].img
                        /\ queue[k - 1].sig = queue[k].wait
            /\ (k = 1 /\ signal[queue[k].wait].by # "none") =>
                   signal[queue[k].wait] = [by |-> "render", img |-> queue[k].img]

\* C5 witness: in main, a present request is at the queue's head with the
\* signal of its frame's completed rendering, a later frame queued behind it.
C5_Witness ==
    /\ program = "main"
    /\ Len(queue) > 1
    /\ queue[1].kind = "present"
    /\ signal[queue[1].wait].by = "render"

AcquireCalled ==
    /\ DrawFrame
    /\ in_flight_fences[slot + 1] = "signaled"
    /\ in_flight_fences'[slot + 1] = "unsignaled"

\* C7. Every step that uses the swapchain (acquire_image) or tears the
\* swapchain down (recreate_swapchain, drop) finds a swapchain and a render
\* pass that have not been destroyed.
C7_NoUseOrDestroyAfterDestroy ==
    [][(AcquireCalled \/ recreate_swapchain \/ drop) =>
           (swapchain.live /\ render_pass.live)]_vars

\* C8. HalState holds frames_in_flight fences, image-available semaphores
\* and render-finished semaphores.
C8_SyncSetsSizedToFramesInFlight ==
    (program = "hal" /\ pc # "dropped") =>
        /\ Len(in_flight_fences) = frames_in_flight
        /\ Len(image_available_semaphores) = frames_in_flight
        /\ Len(render_finished_semaphores) = frames_in_flight

\* C9. While HalState holds a swapchain, it holds one command buffer per
\* swapchain image.
C9_OneCommandBufferPerImage ==
    (program = "hal" /\ swapchain.live) => command_buffers = swapchain.images

\* C10 as claimed: image views, framebuffers and swapchain images are equal
\* in number, in HalState and in main.
C10_ViewsFramebuffersImagesEqual ==
    /\ (program = "hal" /\ swapchain.live) =>
           (image_views = swapchain.images /\ framebuffers = swapchain.images)
    /\ (program = "main" /\ swapchain_stuff.some) =>
           /\ swapchain_stuff.frame_views = swapchain_stuff.images
           /\ swapchain_stuff.framebuffers = swapchain_stuff.images

\* C10 as amended: the three are equal in number in HalState and, for a
\* backbuffer of images, in main; for a backbuffer that is a framebuffer
\* main holds no image view and the one framebuffer. They change together:
\* without a swapchain there are no views and no framebuffers.
C10_ViewsFramebuffersImagesAmended ==
    /\ (program = "hal" /\ pc # "dropped") =>
           /\ image_views = framebuffers
           /\ swapchain.live => image_views = swapchain.images
           /\ ~swapchain.live => image_views = 0
    /\ program = "main" =>
           /\ (swapchain_stuff.some /\ backbuffer = "images") =>
                  /\ swapchain_stuff.frame_views = swapchain_stuff.images
                  /\ swapchain_stuff.framebuffers = swapchain_stuff.images
           /\ (swapchain_stuff.some /\ backbuffer = "framebuffer") =>
                  /\ swapchain_stuff.frame_views = 0
                  /\ swapchain_stuff.framebuffers = 1
           /\ ~swapchain_stuff.some =>
                  /\ swapchain_stuff.frame_views = 0
                  /\ swapchain_stuff.framebuffers = 0

\* C10 witness: HalState after a recreate_swapchain that changed the number
\* of images (the command buffers still count the first swapchain's).
C10_Witness ==
    /\ program = "hal"
    /\ swapchain.live
    /\ swapchain.images # command_buffers
    /\ image_views = swapchain.images
    /\ framebuffers = swapchain.images

C12_RebuildBeforeNextAcquire ==
    (program = "main" /\ pc = "render") =>
        /\ swapchain_stuff.some
        /\ ~rebuild_swapchain
        /\ ~taken.some

\* C13. A frame whose fence wait, fence reset or image acquisition fails
\* queues no submission and no present request: draw_clear_frame returns at
\* once, main goes to its next iteration.
C13_FailedFrameAbandoned ==
    [][/\ (DrawFrame /\ (WaitForFenceFails \/ ResetFenceFails \/ AcquireImageFails))
           => (queue' = queue /\ pc' = "idle")
       /\ (MainFrame /\ MainAcquireFails)
           => (queue' = queue /\ pc' = "poll")]_vars

\* C13 witness: draw_clear_frame has returned from a failed acquisition, the
\* fence it reset belonging to no submission, while an earlier frame's
\* submission is still queued.
C13_Witness ==
    /\ program = "hal" /\ pc = "idle"
    /\ queue # <<>>
    /\ \E f \in DOMAIN in_flight_fences :
          in_flight_fences[f] = "unsignaled" /\ ~FencePending(f - 1)

\* C14. Every step that destroys framebuffers, render pass, image views or
\* swapchain and resets the command pool for a rebuild (cleanup_swapchain in
\* recreate_swapchain and in drop; main's teardown when it destroys the
\* taken tuple) is taken with the queue drained: its wait_idle returned Ok
\* after the last submission.
C14_DestroyOnlyAfterIdle ==
    [][(recreate_swapchain \/ drop \/ (MainTeardown /\ ~taken'.some))
           => GpuIdle]_vars

\* C15. Every returning call of draw_clear_frame advances current_frame
\* once, on entry, to (current_frame + 1) mod frames_in_flight, whatever its
\* result; and with frames_in_flight >= 2 the call that follows a call that
\* returned an error takes another slot than the failed call's.
C15_AdvanceOnEntryOncePerCall ==
    [][/\ (DrawBegin /\ pc' = "wait") =>
              /\ current_frame' = (current_frame + 1) % frames_in_flight
              /\ (last_call.failed /\ frames_in_flight >= 2) =>
                     slot' # last_call.slot
       /\ DrawFrameObserved => current_frame' = current_frame]_vars

\* C16 as claimed: on a fresh HalState with no recreate_swapchain, after the
\* calls that returned, N of them Ok, current_frame = N mod frames_in_flight.
C16_CurrentFrameIsOkCallsMod ==
    (pc = "idle" /\ frames.counted) =>
        current_frame = frames.ok % frames_in_flight

\* C16 as amended: on a fresh HalState with no recreate_swapchain, after N
\* calls that returned, with Ok or with an error, current_frame = N mod
\* frames_in_flight.
C16_CurrentFrameIsCallsMod ==
    (pc = "idle" /\ frames.counted) =>
        current_frame = frames.calls % frames_in_flight

\* C16 witness: three calls have returned, one of them with an error, with
\* two frames in flight: the rotation has wrapped.
C16_Witness ==
    /\ pc = "idle" /\ frames.counted
    /\ frames_in_flight = 2
    /\ frames.calls = 3 /\ frames.ok = 2
    /\ current_frame = 1

\* Step a comes before step b wherever both occur in steps.
Before(steps, a, b) ==
    \A j \in DOMAIN steps, k \in DOMAIN steps :
        (steps[j] = a /\ steps[k] = b) => j < k
Performs(steps, a) == \E k \in DOMAIN steps : steps[k] = a
\* The dependency order of a teardown: the idle wait first; the framebuffers
\* before the render pass and the image views; the image views before the
\* swapchain; the pool reset after the idle wait.
DependencyOrder(steps) ==
    /\ steps[1] = "wait_idle"
    /\ Performs(steps, "command_pool_reset")
    /\ Performs(steps, "destroy_framebuffers")
    /\ Performs(steps, "destroy_image_views")
    /\ Performs(steps, "destroy_swapchain")
    /\ Before(steps, "destroy_framebuffers", "destroy_render_pass")
    /\ Before(steps, "destroy_framebuffers", "destroy_image_views")
    /\ Before(steps, "destroy_image_views", "destroy_swapchain")
    /\ \A j \in DOMAIN steps, k \in DOMAIN steps :
           steps[j] = steps[k] => j = k

\* C17 as claimed: every teardown (cleanup_swapchain in recreate_swapchain
\* and drop; main's teardown that destroys the taken tuple) performs, in
\* this order: idle wait, command pool reset, framebuffers, render pass,
\* image views, swapchain.
C17_TeardownOrderExact ==
    [][LET claimed == <<"wait_idle", "command_pool_reset",
                        "destroy_framebuffers", "destroy_render_pass",
                        "destroy_image_views", "destroy_swapchain">>
       IN  /\ (recreate_swapchain \/ drop) => CleanupSwapchainSteps = claimed
           /\ (MainTeardown /\ ~taken'.some) => MainTeardownSteps = claimed]_vars

\* C17 as amended: every teardown begins with the idle wait, then resets
\* the command pool and destroys every framebuffer before the render pass
\* and the image views, and every image view before the swapchain;
\* cleanup_swapchain also destroys the render pass, main's teardown does not.
C17_TeardownDependencyOrder ==
    [][/\ (recreate_swapchain \/ drop) =>
              /\ DependencyOrder(CleanupSwapchainSteps)
              /\ Performs(CleanupSwapchainSteps, "destroy_render_pass")
       /\ (MainTeardown /\ ~taken'.some) =>
              /\ DependencyOrder(MainTeardownSteps)
              /\ ~Performs(MainTeardownSteps, "destroy_render_pass")]_vars

\* C17 witness: cleanup_swapchain has run in a recreate_swapchain that then
\* failed: no framebuffer, render pass, image view or swapchain is left.
C17_Witness ==
    /\ program = "hal" /\ pc = "idle"
    /\ framebuffers = 0 /\ image_views = 0
    /\ ~render_pass.live /\ ~swapchain.live

\* The device is dropped after every destroy of the shutdown.
DeviceAfterObjects(steps) ==
    /\ Performs(steps, "drop_device")
    /\ \A j \in DOMAIN steps, k \in DOMAIN steps :
           (steps[j] = "drop_device" /\ steps[k] \notin {"drop_device", "drop_instance"})
               => k < j
\* The shutdown steps: HalState's drop, and main's quit that leaves the loop.
MainExit == MainPoll /\ pc' = "exit"

\* C18: at shutdown no GPU object is destroyed while GPU work is
\* outstanding, and the device is destroyed only after every object created
\* from it: when drop or main's exit destroys, the queue has drained, and
\* no swapchain, image view or framebuffer of main outlives the device.
C18_ShutdownWaitsDeviceLast ==
    [][/\ drop => (GpuIdle /\ DeviceAfterObjects(DropSteps))
       /\ MainExit =>
              /\ GpuIdle
              /\ DeviceAfterObjects(MainExitSteps)
              /\ ~swapchain_stuff'.some /\ ~taken'.some]_vars

\* C19: whenever the configuration block has produced an image count from
\* the reported image_count.end (the spec's max_image_count), the count is
\* at least 1 and at most max_image_count - 1, and it is
\* min(max_image_count - 1, 3) with Mailbox chosen and
\* min(max_image_count - 1, 2) otherwise.
C19_ImageCountInRange ==
    swapchain_config.status = "ok" =>
        LET max_image_count == compatibility.image_count_end
            count == swapchain_config.image_count
        IN  /\ 1 <= count
            /\ count <= max_image_count - 1
            /\ count = IF swapchain_config.present_mode = "Mailbox"
                       THEN Min(max_image_count - 1, 3)
                       ELSE Min(max_image_count - 1, 2)

\* C20: once the configuration block has passed the selection, the chosen
\* present mode is Mailbox if the surface supports it, else Fifo, else
\* Relaxed, else Immediate, and the block has returned the error exactly
\* when the surface supports none of the four.
C20_PresentModePreference ==
    swapchain_config.status # "none" =>
        LET present_modes == compatibility.present_modes
            chosen == swapchain_config.present_mode
            selected == swapchain_config.status = "ok"
        IN  /\ (swapchain_config.status = "error") <=>
                   (present_modes \cap {"Mailbox", "Fifo", "Relaxed", "Immediate"} = {})
            /\ selected =>
                   chosen = IF "Mailbox" \in present_modes THEN "Mailbox"
                            ELSE IF "Fifo" \in present_modes THEN "Fifo"
                            ELSE IF "Relaxed" \in present_modes THEN "Relaxed"
                            ELSE "Immediate"
            /\ selected => chosen \in present_modes

\* C20 witness: a surface with Mailbox and Fifo both supported, for which
\* Mailbox was chosen.
C20_Witness ==
    /\ swapchain_config.status = "ok"
    /\ compatibility.present_modes = {"Mailbox", "Fifo", "Immediate"}
    /\ swapchain_config.present_mode = "Mailbox"

\* C21: once the format selection of HalState or of main has run, it has
\* returned an sRGB format if the advertised list contains one, otherwise
\* the first advertised format, the default Rgba8Srgb if no list is
\* advertised, and the empty-list error exactly when a list is advertised
\* and is empty.
C21_FormatSelection ==
    format.status # "none" =>
        LET list == preferred_formats.list
            has_srgb == \E k \in DOMAIN list : ChannelType(list[k]) = "Srgb"
        IN  /\ ~preferred_formats.some => format = Selected("Rgba8Srgb")
            /\ (preferred_formats.some /\ has_srgb) =>
                   /\ format.status = "ok"
                   /\ ChannelType(format.format) = "Srgb"
                   /\ \E k \in DOMAIN list : list[k] = format.format
            /\ (preferred_formats.some /\ ~has_srgb /\ list # <<>>) =>
                   format = Selected(list[1])
            /\ (format.status = "error") <=> (preferred_formats.some /\ list = <<>>)
            /\ format.status # "panic"

C23_RecreateKeepsSyncObjects ==
    [][recreate_swapchain =>
          /\ in_flight_fences' = in_flight_fences
          /\ image_available_semaphores' = image_available_semaphores
          /\ render_finished_semaphores' = render_finished_semaphores
          /\ command_buffers' = command_buffers
          /\ queue' = queue /\ signal' = signal]_vars

\* C23 witness: a successful recreate_swapchain has changed
\* frames_in_flight and left the fences, a signalled one at current_frame
\* among them, as they were.
C23_Witness ==
    /\ program = "hal" /\ pc = "idle" /\ swapchain.live
    /\ frames_in_flight # Len(in_flight_fences)
    /\ current_frame < Len(in_flight_fences)
    /\ in_flight_fences[current_frame + 1] = "signaled"
    /\ \E k \in DOMAIN in_flight_fences : in_flight_fences[k] = "unsignaled"

\* C24: the extent given to the swapchain by new and recreate_swapchain is
\* the current extent the surface capabilities report, whatever the size
\* of the window passed in.
C24_ExtentIsCurrentExtent ==
    pc = "extent_selected" => extent = surface_extents.current_extent

\* C25: main leaves its loop only from the quit test that follows the
\* event poll, at the top of an iteration and without queueing anything;
\* after that nothing more is acquired, submitted or presented; and
\* whatever an iteration queues is a whole frame, the submission and the
\* present of the acquired image.
C25_QuitOnlyBetweenFrames ==
    [][program = "main" =>
          /\ (pc' = "exit" /\ pc # "exit") =>
                 (MainPoll /\ pc = "poll" /\ queue' = queue /\ signal' = signal)
          /\ pc = "exit" => (pc' = "exit" /\ queue' = queue)
          /\ Len(queue') > Len(queue) =>
                 /\ MainFrame
                 /\ Len(queue') = Len(queue) + 2
                 /\ SubSeq(queue', 1, Len(queue)) = queue
                 /\ queue'[Len(queue) + 1].kind = "submit"
                 /\ queue'[Len(queue) + 2].kind = "present"
                 /\ queue'[Len(queue) + 2].img = queue'[Len(queue) + 1].img]_vars

\* C25 witness: main has left its loop on a quit seen after a frame whose
\* submission and present are both still queued.
C25_Witness ==
    /\ program = "main" /\ pc = "exit"
    /\ Len(queue) >= 2
    /\ queue[Len(queue)].kind = "present"
    /\ queue[Len(queue) - 1].kind = "submit"

\* C26: on the same answers, recreate_swapchain selects the present mode,
\* composite alpha, format, extent and image count that new selects, builds
\* the same render pass, image views and framebuffers, and ends the same
\* way (Ok, the same error, or a panic).
C26_RecreateEqualsNew ==
    (created.by_new.status # "none" /\ created.by_recreate.status # "none") =>
        created.by_recreate = created.by_new

\* C26 witness: both have built a swapchain of three images with Mailbox.
C26_Witness ==
    /\ created.by_new.status = "ok" /\ created.by_recreate.status = "ok"
    /\ created.by_recreate.present_mode = "Mailbox"
    /\ created.by_recreate.image_count = 3
    /\ created.by_recreate.image_views = 3
    /\ created.by_recreate.format = "Bgra8Srgb"

\* The swapchains created and not destroyed: HalState's, the one main holds
\* in swapchain_stuff, and the one main took out of it and has not destroyed.
LiveSwapchains ==
    (IF swapchain.live THEN 1 ELSE 0)
    + (IF swapchain_stuff.some THEN 1 ELSE 0)
    + (IF taken.some THEN 1 ELSE 0)

\* C27: at every moment at most one swapchain is created and not yet
\* destroyed, in HalState and in main, also after a failed idle wait of
\* main's teardown.
C27_AtMostOneLiveSwapchain == LiveSwapchains <= 1

\* C28: once main has left its loop and run the statements after it, no
\* swapchain, image view or framebuffer is left undestroyed.
C28_NothingOutlivesTheLoop ==
    (program = "main" /\ pc = "exit") =>
        /\ ~swapchain_stuff.some /\ ~taken.some
        /\ swapchain_stuff.frame_views = 0 /\ swapchain_stuff.framebuffers = 0
        /\ taken.frame_views = 0 /\ taken.framebuffers = 0

\* A signal of the semaphore is pending (an acquisition given it whose image
\* the presentation engine has not yet declared available; a queued
\* submission that will signal it) or unconsumed (signalled, and no wait on
\* it executed since).
SignalOutstanding(sem) ==
    \/ signal[sem].by # "none"
    \/ \E k \in Submits : queue[k].acq_sem = sem /\ ~queue[k].fired
    \/ \E k \in Submits : queue[k].sig = sem

\* C29: when a frame hands its image-available semaphore to acquire_image
\* and its render-finished semaphore to the submission, no earlier signal
\* of either is pending or unconsumed; for HalState's semaphores of the
\* slot and for main's frame_semaphore and present_semaphore.
C29_NoSignalOnOutstandingSemaphore ==
    [][/\ (DrawFrame /\ Len(queue') > Len(queue)) =>
              /\ ~SignalOutstanding(AcquireSemaphore(slot))
              /\ ~SignalOutstanding(SubmitSignalSemaphore(slot))
       /\ (MainFrame /\ Len(queue') > Len(queue)) =>
              /\ ~SignalOutstanding(frame_semaphore)
              /\ ~SignalOutstanding(present_semaphore)]_vars

====
